---- MODULE Spec2Model ----
(***************************************************************************)
(* Library management project (bookshelf and relationship_app).            *)
(* The model covers the book forms, the permission- and role-gated views,  *)
(* the create_groups / create_test_users management commands and the       *)
(* sample queries of relationship_app.                                     *)
(***************************************************************************)
EXTENDS Integers, Sequences, FiniteSets, TLC

VARIABLES
    permissions,        \* auth_permission rows present, as "app_label.codename"
    groups,             \* auth_group rows in creation order: [name, permissions]
    users,              \* user table: username -> row, or NoUser
    stdout,             \* lines written by the management command that ran last
    admin_changes,      \* how many changes were made through the admin site
    bookshelf_books,    \* bookshelf.Book table: pk -> row, or NoRow
    relationship_books, \* relationship_app.Book table: pk -> row, or NoRow
    authors,            \* relationship_app.Author table: the pks in use
    libraries,          \* relationship_app.Library table: pk -> [books], or NoRow
    librarians,         \* relationship_app.Librarian table: pk -> [library], or NoRow
    request,            \* the request handled last
    response,           \* the response it got
    form,               \* a bound ExampleForm field and the outcome of cleaning it
    query               \* the sample query called last and its outcome

vars == << permissions, groups, users, stdout, admin_changes, bookshelf_books, relationship_books,
           authors, libraries, librarians, request, response, form, query >>

authVars == << permissions, groups, users, stdout, admin_changes >>
dataVars == << bookshelf_books, relationship_books, authors, libraries, librarians >>
httpVars == << request, response >>

-----------------------------------------------------------------------------
(* Python values: None, str (a sequence of characters) and int.             *)

PyNone == [none |-> TRUE]
PyStr(s) == [str |-> s]
PyInt(i) == [int |-> i]

IsStr(v) == DOMAIN v = {"str"}
IsInt(v) == DOMAIN v = {"int"}

\* bool(v): None, the empty string and 0 are false.
Truthy(v) ==
    IF v = PyNone THEN FALSE
    ELSE IF IsStr(v) THEN Len(v.str) > 0
    ELSE v.int # 0

Whitespace == {" "}
Chars == {" ", "a", "b"}

RECURSIVE lstrip(_)
lstrip(s) == IF s # <<>> /\ Head(s) \in Whitespace THEN lstrip(Tail(s)) ELSE s

RECURSIVE rstrip(_)
rstrip(s) ==
    IF s # <<>> /\ s[Len(s)] \in Whitespace THEN rstrip(SubSeq(s, 1, Len(s) - 1)) ELSE s

\* str.strip()
strip(s) == rstrip(lstrip(s))

\* The strings of at most n characters.
RECURSIVE StringsUpTo(_)
StringsUpTo(n) ==
    IF n = 0 THEN { <<>> }
    ELSE LET shorter == StringsUpTo(n - 1)
         IN  shorter \cup { Append(s, c) : s \in { t \in shorter : Len(t) = n - 1 }, c \in Chars }

-----------------------------------------------------------------------------
(* Form fields.  The outcome of cleaning is [ok, value] or [ok, error].     *)

Cleaned(v) == [ok |-> TRUE, value |-> v]
FieldError(code) == [ok |-> FALSE, error |-> code]

\* As CharField_clean, for a field that is not required.
CharField_clean_blank_allowed(raw) ==
    Cleaned(IF raw = PyNone THEN PyStr(<<>>) ELSE PyStr(strip(raw.str)))

\* forms.CharField.clean of a required field, as the ModelForm builds it for
\* title and author: the value is stripped, and an empty one is refused.
CharField_clean(raw) ==
    LET value == IF raw = PyNone THEN PyStr(<<>>) ELSE PyStr(strip(raw.str))
    IN  IF value.str = <<>> THEN FieldError("required") ELSE Cleaned(value)

\* forms.IntegerField.clean of a required field; NotANumber is a value int()
\* refuses.
NotANumber == PyStr(<<"a">>)

IntegerField_clean(raw) ==
    IF raw = PyNone \/ raw = PyStr(<<>>) THEN FieldError("required")
    ELSE IF ~IsInt(raw) THEN FieldError("invalid")
    ELSE Cleaned(raw)

\* dict.get(key): None when the key is missing.
Get(d, key) == IF key \in DOMAIN d THEN d[key] ELSE PyNone

MinYear == 1000
MaxYear == 9999

clean_title(cleaned_data) ==
    LET title == Get(cleaned_data, "title")
    IN  IF Truthy(title) /\ Len(strip(title.str)) = 0
        THEN FieldError("Title cannot be empty or whitespace only.")
        ELSE Cleaned(IF Truthy(title) THEN PyStr(strip(title.str)) ELSE title)

clean_author(cleaned_data) ==
    LET author == Get(cleaned_data, "author")
    IN  IF Truthy(author) /\ Len(strip(author.str)) = 0
        THEN FieldError("Author cannot be empty or whitespace only.")
        ELSE Cleaned(IF Truthy(author) THEN PyStr(strip(author.str)) ELSE author)

clean_publication_year(cleaned_data) ==
    LET year == Get(cleaned_data, "publication_year")
    IN  IF Truthy(year) /\ (year.int < MinYear \/ year.int > MaxYear)
        THEN FieldError("Publication year must be between 1000 and 9999.")
        ELSE Cleaned(year)

\* BaseForm._clean_fields for one field of ExampleForm: the field's own clean,
\* then the form's clean_<name> on the value it produced.
ExampleForm_clean_field(name, raw) ==
    LET first == IF name = "publication_year" THEN IntegerField_clean(raw)
                 ELSE CharField_clean(raw)
        cleaned_data == IF first.ok THEN [f \in {name} |-> first.value]
                        ELSE [f \in {} |-> PyNone]
    IN  IF ~first.ok THEN first
        ELSE IF name = "title" THEN clean_title(cleaned_data)
        ELSE IF name = "author" THEN clean_author(cleaned_data)
        ELSE clean_publication_year(cleaned_data)

-----------------------------------------------------------------------------
(* django.contrib.auth: permissions, groups and users.                      *)

Perm(app_label, codename) == [app_label |-> app_label, codename |-> codename]

BookCodenames == << "can_view", "can_create", "can_edit", "can_delete" >>
BookshelfPerms == { Perm("bookshelf", BookCodenames[i]) : i \in 1..Len(BookCodenames) }
RelationshipPerms ==
    { Perm("relationship_app", c) : c \in {"can_add_book", "can_change_book", "can_delete_book"} }

Range(seq) == { seq[i] : i \in 1..Len(seq) }

\* QuerySet.filter(name=...) on a table kept as a sequence of rows.
RowsNamed(table, key, name) == { i \in 1..Len(table) : table[i][key] = name }

Line(style, text, item) == [style |-> style, text |-> text, item |-> item]

\* The permission lookup loop of create_groups: codename -> Permission for the
\* codenames whose row exists, and a warning for each one that does not.
create_groups_perms(perm_rows) ==
    LET found == { c \in Range(BookCodenames) : Perm("bookshelf", c) \in perm_rows }
    IN  [c \in found |-> Perm("bookshelf", c)]

create_groups_warnings(perm_rows) ==
    LET missing(i) == Perm("bookshelf", BookCodenames[i]) \notin perm_rows
        F[i \in 0..Len(BookCodenames)] ==
            IF i = 0 THEN << >>
            ELSE IF missing(i)
                 THEN Append(F[i - 1], Line("WARNING", "Permission does not exist yet. Run migrate first.",
                                            BookCodenames[i]))
                 ELSE F[i - 1]
    IN  F[Len(BookCodenames)]

\* The groups dictionary of create_groups, in the order it is iterated.
GroupPermissions ==
    << [name |-> "Admins", perms |-> << "can_view", "can_create", "can_edit", "can_delete" >>],
       [name |-> "Editors", perms |-> << "can_view", "can_create", "can_edit" >>],
       [name |-> "Viewers", perms |-> << "can_view" >>] >>

GroupNames == { GroupPermissions[i].name : i \in 1..Len(GroupPermissions) }

\* As Group_get_or_create, without the lookup.
Group_get_or_create_always_creates(table, name) ==
    [table |-> Append(table, [name |-> name, permissions |-> {}]),
     index |-> Len(table) + 1, created |-> TRUE]

\* Group.objects.get_or_create(name=...): the row's index, the table, created.
Group_get_or_create(table, name) ==
    IF RowsNamed(table, "name", name) # {}
    THEN [table |-> table, index |-> CHOOSE i \in RowsNamed(table, "name", name) : TRUE,
          created |-> FALSE]
    ELSE [table |-> Append(table, [name |-> name, permissions |-> {}]),
          index |-> Len(table) + 1, created |-> TRUE]

\* One pass of the loop over the groups dictionary.
create_groups_one(state, entry, perms) ==
    LET got == Group_get_or_create(state.groups, entry.name)
        to_assign == { perms[p] : p \in Range(entry.perms) \cap DOMAIN perms }
    IN  [groups |-> [got.table EXCEPT ![got.index].permissions = to_assign],
         out |-> Append(state.out,
                        Line("SUCCESS", IF got.created THEN "Created group" ELSE "Updated group",
                             entry.name))]

\* create_groups.Command.handle: the group table and the lines written.
create_groups_handle(group_rows, perm_rows) ==
    LET perms == create_groups_perms(perm_rows)
        F[i \in 0..Len(GroupPermissions)] ==
            IF i = 0 THEN [groups |-> group_rows, out |-> create_groups_warnings(perm_rows)]
            ELSE create_groups_one(F[i - 1], GroupPermissions[i], perms)
        done == F[Len(GroupPermissions)]
    IN  [groups |-> done.groups,
         out |-> Append(done.out, Line("SUCCESS", "Groups and permissions setup complete.", "all"))]

\* AbstractBaseUser.set_password stores a hash, never the password itself.
make_password(pwd) == [hashed |-> pwd]

\* A row of the user table as User.objects.create leaves it.
NewUser(username, email) ==
    [username |-> username, email |-> email, password |-> PyNone, groups |-> {},
     user_permissions |-> {}, is_superuser |-> FALSE, is_active |-> TRUE,
     userprofile |-> PyNone]

\* The users list of create_test_users.
TestUsers ==
    << [username |-> "admin_user", email |-> "admin@example.com", pwd |-> "password123",
        group_name |-> "Admins"],
       [username |-> "editor_user", email |-> "editor@example.com", pwd |-> "password123",
        group_name |-> "Editors"],
       [username |-> "viewer_user", email |-> "viewer@example.com", pwd |-> "password123",
        group_name |-> "Viewers"] >>

TestUsernames == { TestUsers[i].username : i \in 1..Len(TestUsers) }

\* User.objects.get_or_create(username=..., defaults={'email': ...}).
User_get_or_create(table, username, email) ==
    IF RowsNamed(table, "username", username) # {}
    THEN [table |-> table, index |-> CHOOSE i \in RowsNamed(table, "username", username) : TRUE,
          created |-> FALSE]
    ELSE [table |-> Append(table, NewUser(username, email)), index |-> Len(table) + 1,
          created |-> TRUE]

\* As assign_group, without user.groups.clear().
assign_group_keeps_old(state, index, entry, group_rows) ==
    IF RowsNamed(group_rows, "name", entry.group_name) # {}
    THEN [users |-> [state.users EXCEPT ![index].groups = @ \cup {entry.group_name}],
          out |-> Append(state.out, Line("SUCCESS", "Assigned to group", entry.username))]
    ELSE [users |-> state.users,
          out |-> Append(state.out,
                         Line("ERROR", "Group does not exist. Run create_groups first.",
                              entry.username))]

\* As assign_group, with user.groups.clear() ahead of the try block.
assign_group_clears_first(state, index, entry, group_rows) ==
    IF RowsNamed(group_rows, "name", entry.group_name) # {}
    THEN [users |-> [state.users EXCEPT ![index].groups = {entry.group_name}],
          out |-> Append(state.out, Line("SUCCESS", "Assigned to group", entry.username))]
    ELSE [users |-> [state.users EXCEPT ![index].groups = {}],
          out |-> Append(state.out,
                         Line("ERROR", "Group does not exist. Run create_groups first.",
                              entry.username))]

\* The try block of create_test_users: Group.objects.get, then clear and add;
\* Group.DoesNotExist is caught and reported.
assign_group(state, index, entry, group_rows) ==
    IF RowsNamed(group_rows, "name", entry.group_name) # {}
    THEN [users |-> [state.users EXCEPT ![index].groups = {entry.group_name}],
          out |-> Append(state.out, Line("SUCCESS", "Assigned to group", entry.username))]
    ELSE [users |-> state.users,
          out |-> Append(state.out,
                         Line("ERROR", "Group does not exist. Run create_groups first.",
                              entry.username))]

\* One pass of the loop over the users list.
create_test_users_one(state, entry, group_rows) ==
    LET got == User_get_or_create(state.users, entry.username, entry.email)
        saved == IF got.created
                 THEN [got.table EXCEPT ![got.index].password = make_password(entry.pwd)]
                 ELSE got.table
        told == Append(state.out,
                       IF got.created THEN Line("SUCCESS", "Created user", entry.username)
                       ELSE Line("WARNING", "User already exists", entry.username))
    IN  assign_group([users |-> saved, out |-> told], got.index, entry, group_rows)

\* create_test_users.Command.handle: the user table and the lines written.
create_test_users_handle(user_rows, group_rows) ==
    LET F[i \in 0..Len(TestUsers)] ==
            IF i = 0 THEN [users |-> user_rows, out |-> << >>]
            ELSE create_test_users_one(F[i - 1], TestUsers[i], group_rows)
        done == F[Len(TestUsers)]
    IN  [users |-> done.users,
         out |-> Append(done.out, Line("SUCCESS", "Test users creation complete.", "all"))]

-----------------------------------------------------------------------------
(* Authorization: ModelBackend permissions and the view decorators.          *)

AnonymousUser == "AnonymousUser"

\* The row of the logged-in user; AnonymousUser has none.
UserRow(user_rows, user) ==
    user_rows[CHOOSE i \in RowsNamed(user_rows, "username", user) : TRUE]

GroupPerms(group_rows, names) ==
    UNION { group_rows[i].permissions : i \in { j \in 1..Len(group_rows) : group_rows[j].name \in names } }

\* User.has_perm: an active superuser has every permission; otherwise the
\* user's own permissions and those of the user's groups count.
has_perm(user_rows, group_rows, user, perm) ==
    IF user = AnonymousUser THEN FALSE
    ELSE LET row == UserRow(user_rows, user)
         IN  /\ row.is_active
             /\ \/ row.is_superuser
                \/ perm \in row.user_permissions \cup GroupPerms(group_rows, row.groups)

Response(status, target) ==
    [status |-> status, target |-> target, errors |-> {}, object_list |-> {}]
FormResponse(target, errors) ==
    [status |-> 200, target |-> target, errors |-> errors, object_list |-> {}]
ListResponse(target, object_list) ==
    [status |-> 200, target |-> target, errors |-> {}, object_list |-> object_list]

\* @permission_required(perm, raise_exception=True): PermissionDenied, a 403,
\* unless the user has the permission.
Forbidden == Response(403, "PermissionDenied")
LoginRedirect == Response(302, "login")

\* As _has_role, without the comparison of the role.
_has_role_any_profile(user_rows, user, role_name) ==
    user # AnonymousUser /\ UserRow(user_rows, user).userprofile # PyNone

\* _has_role: logged in, with a profile, and the profile's role is the one asked.
_has_role(user_rows, user, role_name) ==
    IF user = AnonymousUser THEN FALSE
    ELSE LET profile == UserRow(user_rows, user).userprofile
         IN  profile # PyNone /\ profile.role = role_name

Roles == {"Admin", "Librarian", "Member"}

\* admin_view, librarian_view and member_view, which differ in the role alone:
\* @user_passes_test redirects to the login page unless the test passes.
role_view(user_rows, user, role_name) ==
    IF _has_role(user_rows, user, role_name)
    THEN Response(200, "relationship_app/role_view.html")
    ELSE LoginRedirect

-----------------------------------------------------------------------------
(* Book tables and the ModelForms of the two views modules.                  *)

NoRow == [norow |-> TRUE]
Pks(table) == { pk \in DOMAIN table : table[pk] # NoRow }

\* bookshelf.views.BookForm: a plain ModelForm over title, author and
\* publication_year, with no clean_<field> methods of its own.
bookshelf_BookForm(POST) ==
    LET title == CharField_clean(POST.title)
        author == CharField_clean(POST.author)
        year == IntegerField_clean(POST.publication_year)
        errors == { f \in {"title", "author", "publication_year"} :
                        \/ f = "title" /\ ~title.ok
                        \/ f = "author" /\ ~author.ok
                        \/ f = "publication_year" /\ ~year.ok }
    IN  IF errors = {}
        THEN [valid |-> TRUE, errors |-> {},
              instance |-> [title |-> title.value.str, author |-> author.value.str,
                            publication_year |-> year.value.int]]
        ELSE [valid |-> FALSE, errors |-> errors, instance |-> NoRow]

\* forms.ModelChoiceField.clean over Author.objects.all().
ModelChoiceField_clean(raw, author_pks) ==
    IF raw = PyNone THEN FieldError("required")
    ELSE IF raw.int \notin author_pks THEN FieldError("invalid_choice")
    ELSE Cleaned(raw)

\* relationship_app.views.BookForm: a plain ModelForm over title and author.
relationship_BookForm(POST, author_pks) ==
    LET title == CharField_clean(POST.title)
        author == ModelChoiceField_clean(POST.author, author_pks)
        errors == { f \in {"title", "author"} :
                        \/ f = "title" /\ ~title.ok
                        \/ f = "author" /\ ~author.ok }
    IN  IF errors = {}
        THEN [valid |-> TRUE, errors |-> {},
              instance |-> [title |-> title.value.str, author |-> author.value.int]]
        ELSE [valid |-> FALSE, errors |-> errors, instance |-> NoRow]

\* As permission_required, asking for a login alone.
permission_required_login_only(user_rows, group_rows, user, perm) == user # AnonymousUser
\* The decorator's test: the view body runs only when it passes.
permission_required(user_rows, group_rows, user, perm) ==
    has_perm(user_rows, group_rows, user, perm)

\* The body of add_book, the same in both modules: a valid POST saves a new row
\* and redirects, anything else renders the form.
add_book_body(method, bound, table, new_pk) ==
    IF method = "POST" /\ bound.valid
    THEN [table |-> [table EXCEPT ![new_pk] = bound.instance],
          response |-> Response(302, "book_list")]
    ELSE [table |-> table,
          response |-> FormResponse("book_form.html", IF method = "POST" THEN bound.errors ELSE {})]

\* The body of edit_book: get_object_or_404, then as add_book on that row.
edit_book_body(method, bound, table, pk) ==
    IF pk \notin Pks(table) THEN [table |-> table, response |-> Response(404, "Http404")]
    ELSE IF method = "POST" /\ bound.valid
    THEN [table |-> [table EXCEPT ![pk] = bound.instance],
          response |-> Response(302, "book_list")]
    ELSE [table |-> table,
          response |-> FormResponse("book_form.html", IF method = "POST" THEN bound.errors ELSE {})]

\* The body of delete_book: get_object_or_404, a POST deletes, a GET asks.
delete_book_body(method, table, pk) ==
    IF pk \notin Pks(table) THEN [table |-> table, response |-> Response(404, "Http404")]
    ELSE IF method = "POST"
    THEN [table |-> [table EXCEPT ![pk] = NoRow], response |-> Response(302, "book_list")]
    ELSE [table |-> table, response |-> Response(200, "book_confirm_delete.html")]

Denied(table) == [table |-> table, response |-> Forbidden]

bookshelf_add_book(user_rows, group_rows, table, user, method, POST, new_pk) ==
    IF ~permission_required(user_rows, group_rows, user, Perm("bookshelf", "can_create"))
    THEN Denied(table)
    ELSE add_book_body(method, bookshelf_BookForm(POST), table, new_pk)

\* As bookshelf_edit_book, with the book looked up ahead of the permission test.
bookshelf_edit_book_lookup_first(user_rows, group_rows, table, user, method, POST, pk) ==
    IF pk \notin Pks(table) THEN [table |-> table, response |-> Response(404, "Http404")]
    ELSE IF ~permission_required(user_rows, group_rows, user, Perm("bookshelf", "can_edit"))
    THEN Denied(table)
    ELSE edit_book_body(method, bookshelf_BookForm(POST), table, pk)

bookshelf_edit_book(user_rows, group_rows, table, user, method, POST, pk) ==
    IF ~permission_required(user_rows, group_rows, user, Perm("bookshelf", "can_edit"))
    THEN Denied(table)
    ELSE edit_book_body(method, bookshelf_BookForm(POST), table, pk)

bookshelf_delete_book(user_rows, group_rows, table, user, method, pk) ==
    IF ~permission_required(user_rows, group_rows, user, Perm("bookshelf", "can_delete"))
    THEN Denied(table)
    ELSE delete_book_body(method, table, pk)

relationship_add_book(user_rows, group_rows, table, author_pks, user, method, POST, new_pk) ==
    IF ~permission_required(user_rows, group_rows, user, Perm("relationship_app", "can_add_book"))
    THEN Denied(table)
    ELSE add_book_body(method, relationship_BookForm(POST, author_pks), table, new_pk)

relationship_edit_book(user_rows, group_rows, table, author_pks, user, method, POST, pk) ==
    IF ~permission_required(user_rows, group_rows, user, Perm("relationship_app", "can_change_book"))
    THEN Denied(table)
    ELSE edit_book_body(method, relationship_BookForm(POST, author_pks), table, pk)

relationship_delete_book(user_rows, group_rows, table, user, method, pk) ==
    IF ~permission_required(user_rows, group_rows, user, Perm("relationship_app", "can_delete_book"))
    THEN Denied(table)
    ELSE delete_book_body(method, table, pk)

-----------------------------------------------------------------------------
(* The requests the book and role views are driven with.                     *)

MaxBooks == 1
\* One pk more than there can be rows, so that a request can always name a
\* book that does not exist.
BookPks == 1..(MaxBooks + 1)

Methods == {"GET", "POST"}

\* Submitted book forms: a valid one, one with a year outside 1000..9999, and
\* ones with a blank title, no author and no year.
BookshelfPost(title, author, year) ==
    [title |-> title, author |-> author, publication_year |-> year]

BookshelfPosts ==
    { BookshelfPost(PyStr(<<" ", "a">>), PyStr(<<"a">>), PyInt(1000)),
      BookshelfPost(PyStr(<<" ", "a">>), PyStr(<<"a">>), PyInt(500)),
      BookshelfPost(PyStr(<<" ">>), PyStr(<<"a">>), PyInt(1000)),
      BookshelfPost(PyStr(<<"a">>), PyNone, PyInt(1000)),
      BookshelfPost(PyStr(<<"a">>), PyStr(<<"a">>), PyNone) }

RelationshipPost(title, author) == [title |-> title, author |-> author]

RelationshipPosts ==
    { RelationshipPost(PyStr(<<"a", " ">>), PyInt(1)),
      RelationshipPost(PyStr(<<"b">>), PyInt(1)),
      RelationshipPost(PyStr(<<" ">>), PyInt(1)),
      RelationshipPost(PyStr(<<"b">>), PyInt(2)) }

Request(user, view, method, pk, POST) ==
    [user |-> user, view |-> view, method |-> method, pk |-> pk,
     POST |-> IF method = "POST" THEN POST ELSE PyNone]

NoRequest == Request(AnonymousUser, "none", "GET", 0, PyNone)
NoResponse == Response(0, "none")

\* The people of the views specification: the three seeded test users, and
\* three accounts made through the admin site.
Account(username, perms, superuser, role) ==
    [NewUser(username, "") EXCEPT !.password = make_password(username),
                                  !.user_permissions = perms,
                                  !.is_superuser = superuser,
                                  !.userprofile = IF role = "" THEN PyNone ELSE [role |-> role]]

AdminSiteAccounts ==
    << Account("librarian", RelationshipPerms, FALSE, "Librarian"),
       Account("member", {}, FALSE, "Member"),
       Account("root", {}, TRUE, "Admin") >>

\* Who sends requests to the book views, and who to the role views.
BookRequesters == {AnonymousUser, "admin_user", "editor_user", "librarian"}
RoleRequesters == {AnonymousUser, "viewer_user", "librarian", "member", "root"}

EmptyTable(pks) == [pk \in pks |-> NoRow]

NotCleaned == [cleaned |-> FALSE]
InitForm == form = [name |-> "title", data |-> PyNone, result |-> NotCleaned]
InitQuery == query = [call |-> "none", arg |-> 0, outcome |-> PyNone]
InitHttp == request = NoRequest /\ response = NoResponse
InitLibrary == libraries = EmptyTable(1..1) /\ librarians = EmptyTable(1..1)

\* Both commands have run on a migrated database, and the admin site has
\* added its accounts.
InitSeeded ==
    /\ permissions = BookshelfPerms \cup RelationshipPerms
    /\ groups = create_groups_handle(<< >>, permissions).groups
    /\ users = create_test_users_handle(<< >>, groups).users \o AdminSiteAccounts
    /\ stdout = << >>
    /\ admin_changes = 0

InitBooks ==
    /\ bookshelf_books = EmptyTable(BookPks)
    /\ relationship_books = EmptyTable(BookPks)
    /\ authors = {1}

Init == InitSeeded /\ InitBooks /\ InitLibrary /\ InitHttp /\ InitForm /\ InitQuery

BookshelfStep(req, result) ==
    /\ request' = req
    /\ response' = result.response
    /\ bookshelf_books' = result.table
    /\ Cardinality(Pks(result.table)) <= MaxBooks
    /\ UNCHANGED << authVars, relationship_books, authors, libraries, librarians, form, query >>

\* A deleted book leaves the libraries it was in (the many-to-many rows go
\* with it).
RelationshipStep(req, result) ==
    /\ request' = req
    /\ response' = result.response
    /\ relationship_books' = result.table
    /\ Cardinality(Pks(result.table)) <= MaxBooks
    /\ libraries' = [l \in DOMAIN libraries |->
                        IF libraries[l] = NoRow THEN NoRow
                        ELSE [libraries[l] EXCEPT !.books = @ \cap Pks(result.table)]]
    /\ UNCHANGED << authVars, bookshelf_books, authors, librarians, form, query >>

\* The database gives a new row a pk not in use.
NewPk(table) == CHOOSE pk \in DOMAIN table \ Pks(table) : \A other \in DOMAIN table \ Pks(table) : pk <= other

BookshelfAddBook ==
    \E user \in BookRequesters, method \in Methods, POST \in BookshelfPosts :
        BookshelfStep(Request(user, "bookshelf.add_book", method, 0, POST),
                      bookshelf_add_book(users, groups, bookshelf_books, user, method, POST,
                                         NewPk(bookshelf_books)))

BookshelfEditBook ==
    \E user \in BookRequesters, method \in Methods, POST \in BookshelfPosts, pk \in BookPks :
        BookshelfStep(Request(user, "bookshelf.edit_book", method, pk, POST),
                      bookshelf_edit_book(users, groups, bookshelf_books, user, method, POST, pk))

BookshelfDeleteBook ==
    \E user \in BookRequesters, method \in Methods, pk \in BookPks :
        BookshelfStep(Request(user, "bookshelf.delete_book", method, pk, PyNone),
                      bookshelf_delete_book(users, groups, bookshelf_books, user, method, pk))

RelationshipAddBook ==
    \E user \in BookRequesters, method \in Methods, POST \in RelationshipPosts :
        RelationshipStep(Request(user, "relationship_app.add_book", method, 0, POST),
                         relationship_add_book(users, groups, relationship_books, authors,
                                               user, method, POST,
                                               NewPk(relationship_books)))

RelationshipEditBook ==
    \E user \in BookRequesters, method \in Methods, POST \in RelationshipPosts, pk \in BookPks :
        RelationshipStep(Request(user, "relationship_app.edit_book", method, pk, POST),
                         relationship_edit_book(users, groups, relationship_books, authors,
                                                user, method, POST, pk))

RelationshipDeleteBook ==
    \E user \in BookRequesters, method \in Methods, pk \in BookPks :
        RelationshipStep(Request(user, "relationship_app.delete_book", method, pk, PyNone),
                         relationship_delete_book(users, groups, relationship_books, user, method, pk))

RoleView(view, role_name) ==
    \E user \in RoleRequesters, method \in Methods :
        /\ request' = Request(user, view, method, 0, PyNone)
        /\ response' = role_view(users, user, role_name)
        /\ UNCHANGED << authVars, dataVars, form, query >>

admin_view == RoleView("relationship_app.admin_view", "Admin")
librarian_view == RoleView("relationship_app.librarian_view", "Librarian")
member_view == RoleView("relationship_app.member_view", "Member")

\* UserProfileAdmin: the admin site gives a user a profile, changes its role
\* or removes it.
ProfileUsers == {"librarian", "member"}

AdminSetUserProfile ==
    \E username \in ProfileUsers, profile \in {PyNone} \cup { [role |-> r] : r \in Roles } :
        /\ users' = [i \in 1..Len(users) |->
                        IF users[i].username = username
                        THEN [users[i] EXCEPT !.userprofile = profile] ELSE users[i]]
        /\ UNCHANGED << permissions, groups, stdout, admin_changes, dataVars, httpVars, form, query >>

Next ==
    \/ BookshelfAddBook
    \/ BookshelfEditBook
    \/ BookshelfDeleteBook
    \/ RelationshipAddBook
    \/ RelationshipEditBook
    \/ RelationshipDeleteBook

Spec == Init /\ [][Next]_vars

NextRoles ==
    \/ admin_view
    \/ librarian_view
    \/ member_view
    \/ AdminSetUserProfile

SpecRoles == Init /\ [][NextRoles]_vars

-----------------------------------------------------------------------------
(* Properties of the book views and the role views.                          *)

BookshelfViews == {"bookshelf.add_book", "bookshelf.edit_book", "bookshelf.delete_book"}
RelationshipViews ==
    {"relationship_app.add_book", "relationship_app.edit_book", "relationship_app.delete_book"}
DeleteViews == {"bookshelf.delete_book", "relationship_app.delete_book"}
RoleViews ==
    {"relationship_app.admin_view", "relationship_app.librarian_view", "relationship_app.member_view"}

\* The permission each book view names in its decorator.
RequiredPerm(view) ==
    CASE view = "bookshelf.add_book" -> Perm("bookshelf", "can_create")
      [] view = "bookshelf.edit_book" -> Perm("bookshelf", "can_edit")
      [] view = "bookshelf.delete_book" -> Perm("bookshelf", "can_delete")
      [] view = "relationship_app.add_book" -> Perm("relationship_app", "can_add_book")
      [] view = "relationship_app.edit_book" -> Perm("relationship_app", "can_change_book")
      [] view = "relationship_app.delete_book" -> Perm("relationship_app", "can_delete_book")

\* The role each role view is for.
RequiredRole(view) ==
    CASE view = "relationship_app.admin_view" -> "Admin"
      [] view = "relationship_app.librarian_view" -> "Librarian"
      [] view = "relationship_app.member_view" -> "Member"

\* The step handles a request (the same request twice in a row with another
\* outcome is a step too).
Handled == << request, response >>' # << request, response >>

\* C1: the persisted books change only in a step that is a POST to a view of
\* that table by a user holding the permission the view requires; a
\* delete_book request by a user without the delete permission is answered
\* with access-denied (403) and leaves every book as it was.
C1_BooksChangeOnlyWithPermission ==
    [][ /\ bookshelf_books' # bookshelf_books =>
            /\ request'.view \in BookshelfViews
            /\ request'.method = "POST"
            /\ has_perm(users, groups, request'.user, RequiredPerm(request'.view))
        /\ relationship_books' # relationship_books =>
            /\ request'.view \in RelationshipViews
            /\ request'.method = "POST"
            /\ has_perm(users, groups, request'.user, RequiredPerm(request'.view))
        /\ ( /\ Handled
             /\ request'.view \in DeleteViews
             /\ ~has_perm(users, groups, request'.user, RequiredPerm(request'.view)) ) =>
            /\ response'.status = 403
            /\ bookshelf_books' = bookshelf_books
            /\ relationship_books' = relationship_books ]_vars

\* C1 witness: editor_user, who has no can_delete, has posted a delete of a
\* book that exists, was refused and the book is still there.
C1_Witness ==
    /\ request.view = "bookshelf.delete_book"
    /\ request.method = "POST"
    /\ request.user = "editor_user"
    /\ ~has_perm(users, groups, "editor_user", Perm("bookshelf", "can_delete"))
    /\ request.pk \in Pks(bookshelf_books)
    /\ response.status = 403

\* Who is let into a gated view, read off the tables directly.
Authenticated(user) == RowsNamed(users, "username", user) # {}
ProfileOf(user) == users[CHOOSE i \in RowsNamed(users, "username", user) : TRUE].userprofile
HoldsRole(user, role_name) ==
    /\ Authenticated(user)
    /\ ProfileOf(user) # PyNone
    /\ ProfileOf(user).role = role_name

\* C2: in every gated view (the permission-gated book views and the role-gated
\* views) a denied request is answered with access-denied (403), never with
\* a redirect or an empty page.
C2_DenialIsAccessDenied ==
    [][ /\ ( /\ Handled
             /\ request'.view \in BookshelfViews \cup RelationshipViews
             /\ ~has_perm(users, groups, request'.user, RequiredPerm(request'.view)) ) =>
            response'.status = 403
        /\ ( /\ Handled
             /\ request'.view \in RoleViews
             /\ ~HoldsRole(request'.user, RequiredRole(request'.view)) ) =>
            response'.status = 403 ]_vars

\* C3: the role view for R lets a user in exactly when the user is logged in,
\* has a profile and the profile's role is R; so no user is let into more
\* than one of the three role views.
C3_RoleViewAllowsExactlyTheRole ==
    [][ ( /\ Handled
          /\ request'.view \in RoleViews ) =>
            /\ response'.status = 200 <=> HoldsRole(request'.user, RequiredRole(request'.view))
            /\ response'.status # 200 => response' = LoginRedirect
            /\ \A user \in RoleRequesters :
                Cardinality({ r \in Roles : role_view(users, user, r).status = 200 }) <= 1 ]_vars

\* C3 witness: member, whose profile the admin site changed to Librarian, is
\* let into librarian_view.
C3_Witness ==
    /\ request.view = "relationship_app.librarian_view"
    /\ request.user = "member"
    /\ ProfileOf("member") = [role |-> "Librarian"]
    /\ response.status = 200

\* The field constraints of a book: title and author not blank once trimmed,
\* publication_year an integer in 1000..9999.
Blank(v) == v = PyNone \/ \A i \in 1..Len(v.str) : v.str[i] \in Whitespace

ViolatesFieldConstraints(POST) ==
    \/ Blank(POST.title)
    \/ Blank(POST.author)
    \/ ~IsInt(POST.publication_year)
    \/ POST.publication_year.int < MinYear
    \/ POST.publication_year.int > MaxYear

\* C9: when the fields posted to add_book or edit_book break a field
\* constraint, the response carries a field error and no book is written or
\* changed.  (Stated of the requests that get as far as the form: the user has
\* the permission, and for edit_book the book exists.)
C9_InvalidFieldsAreNotPersisted ==
    [][ ( /\ Handled
          /\ request'.view \in {"bookshelf.add_book", "bookshelf.edit_book"}
          /\ request'.method = "POST"
          /\ has_perm(users, groups, request'.user, RequiredPerm(request'.view))
          /\ request'.view = "bookshelf.edit_book" => request'.pk \in Pks(bookshelf_books)
          /\ ViolatesFieldConstraints(request'.POST) ) =>
            /\ response'.status = 200
            /\ response'.errors # {}
            /\ bookshelf_books' = bookshelf_books ]_vars

EditDeleteViews ==
    {"bookshelf.edit_book", "bookshelf.delete_book",
     "relationship_app.edit_book", "relationship_app.delete_book"}

\* The response of edit_book or delete_book to a request, over a given table
\* of the view's books.
Answer(req, table) ==
    CASE req.view = "bookshelf.edit_book" ->
            bookshelf_edit_book(users, groups, table, req.user, req.method, req.POST, req.pk).response
      [] req.view = "bookshelf.delete_book" ->
            bookshelf_delete_book(users, groups, table, req.user, req.method, req.pk).response
      [] req.view = "relationship_app.edit_book" ->
            relationship_edit_book(users, groups, table, authors, req.user, req.method,
                                   req.POST, req.pk).response
      [] req.view = "relationship_app.delete_book" ->
            relationship_delete_book(users, groups, table, req.user, req.method, req.pk).response

\* The rows a book table of the view can hold.
BookRows(view) ==
    IF view \in BookshelfViews
    THEN { bookshelf_BookForm(POST).instance : POST \in { P \in BookshelfPosts : bookshelf_BookForm(P).valid } }
    ELSE { relationship_BookForm(POST, authors).instance :
              POST \in { P \in RelationshipPosts : relationship_BookForm(P, authors).valid } }

\* The tables that differ from the given one in the presence of book pk alone.
DifferingInBook(table, pk, rows) ==
    IF pk \in Pks(table) THEN { [table EXCEPT ![pk] = NoRow] }
    ELSE { [table EXCEPT ![pk] = row] : row \in rows }

\* C11: an edit_book or delete_book request by a user without the permission
\* the view requires is answered with access-denied (403) whether or not the
\* book exists: on every store that differs from the current one only in the
\* presence of the requested book, the same request gets the same response.
C11_DenialDoesNotTellWhichBooksExist ==
    [][ ( /\ Handled
          /\ request'.view \in EditDeleteViews
          /\ ~has_perm(users, groups, request'.user, RequiredPerm(request'.view)) ) =>
            LET table == IF request'.view \in BookshelfViews
                         THEN bookshelf_books ELSE relationship_books
            IN  /\ response' = Forbidden
                /\ \A other \in DifferingInBook(table, request'.pk, BookRows(request'.view)) :
                        Answer(request', other) = response' ]_vars

\* C11 witness: librarian, who is logged in but has no bookshelf.can_edit, has
\* asked to edit a book that does not exist while another one does, and was
\* answered with the 403 of the permission test, not with a 404.
C11_Witness ==
    /\ request.view = "bookshelf.edit_book"
    /\ request.user = "librarian"
    /\ ~has_perm(users, groups, "librarian", Perm("bookshelf", "can_edit"))
    /\ request.pk \notin Pks(bookshelf_books)
    /\ Pks(bookshelf_books) # {}
    /\ response = Forbidden

-----------------------------------------------------------------------------
(* ExampleForm on its own: each field bound to a submitted value and         *)
(* cleaned.                                                                  *)

MaxLen == 3
YearMargin == 2

Texts == {PyNone} \cup { PyStr(t) : t \in StringsUpTo(MaxLen) }

Years ==
    (-YearMargin..YearMargin) \cup ((MinYear - YearMargin)..(MinYear + YearMargin))
        \cup ((MaxYear - YearMargin)..(MaxYear + YearMargin))

YearInputs == {PyNone, PyStr(<< >>), NotANumber} \cup { PyInt(y) : y \in Years }

FieldInputs(name) == IF name = "publication_year" THEN YearInputs ELSE Texts

ExampleFormFields == {"title", "author", "publication_year"}

BoundForms ==
    { [name |-> name, data |-> data, result |-> NotCleaned] :
        name \in ExampleFormFields, data \in Texts \cup YearInputs }

InitForms ==
    /\ InitSeeded /\ InitBooks /\ InitLibrary /\ InitHttp /\ InitQuery
    /\ form \in { f \in BoundForms : f.data \in FieldInputs(f.name) }

\* ExampleForm(data): a new form bound to the submitted value.
ExampleFormBind ==
    /\ form' \in { f \in BoundForms : f.data \in FieldInputs(f.name) }
    /\ UNCHANGED << authVars, dataVars, httpVars, query >>

\* form.is_valid(): the field is cleaned and the outcome kept.
ExampleFormIsValid ==
    /\ form.result = NotCleaned
    /\ form' = [form EXCEPT !.result = ExampleForm_clean_field(form.name, form.data)]
    /\ UNCHANGED << authVars, dataVars, httpVars, query >>

NextForms ==
    \/ ExampleFormBind
    \/ ExampleFormIsValid

SpecForms == InitForms /\ [][NextForms]_vars

\* C7: a publication_year outside 1000..9999, 0 and negative years included,
\* is refused with a field error, and one inside is accepted as it is.
C7_YearOutsideRangeIsRejected ==
    ( /\ form.result # NotCleaned
      /\ form.name = "publication_year"
      /\ IsInt(form.data) ) =>
        IF form.data.int < MinYear \/ form.data.int > MaxYear
        THEN ~form.result.ok
        ELSE form.result = Cleaned(form.data)

\* v is raw without its leading and trailing whitespace.
Trimmed(raw, v) ==
    \E i, j \in 0..Len(raw) :
        /\ i + j < Len(raw)
        /\ v = SubSeq(raw, i + 1, Len(raw) - j)
        /\ v[1] \notin Whitespace
        /\ v[Len(v)] \notin Whitespace
        /\ \A k \in 1..i : raw[k] \in Whitespace
        /\ \A k \in (Len(raw) - j + 1)..Len(raw) : raw[k] \in Whitespace

-----------------------------------------------------------------------------
(* The management commands, run any number of times on a database that       *)
(* migrate and the admin site change in between.                             *)

MaxAdminChanges == 2

\* How far migrate has got when the commands are first run: no Book permission
\* yet, can_view alone, all but can_delete, or all four.
MigratedSoFar ==
    { {}, {Perm("bookshelf", "can_view")},
      BookshelfPerms \ {Perm("bookshelf", "can_delete")}, BookshelfPerms }

InitSeed ==
    /\ permissions \in MigratedSoFar
    /\ groups = << >>
    /\ users = << >>
    /\ stdout = << >>
    /\ admin_changes = 0
    /\ InitBooks /\ InitLibrary /\ InitHttp /\ InitForm /\ InitQuery

\* manage.py migrate: the permissions of Book's Meta that are missing appear.
Migrate ==
    /\ ~(BookshelfPerms \subseteq permissions)
    /\ permissions' = permissions \cup BookshelfPerms
    /\ UNCHANGED << groups, users, stdout, admin_changes, dataVars, httpVars, form, query >>

\* manage.py create_groups
CreateGroups ==
    LET ran == create_groups_handle(groups, permissions)
    IN  /\ groups' = ran.groups
        /\ stdout' = ran.out
        /\ UNCHANGED << permissions, users, admin_changes, dataVars, httpVars, form, query >>

\* manage.py create_test_users
CreateTestUsers ==
    LET ran == create_test_users_handle(users, groups)
    IN  /\ users' = ran.users
        /\ stdout' = ran.out
        /\ UNCHANGED << permissions, groups, admin_changes, dataVars, httpVars, form, query >>

AdminChange ==
    /\ admin_changes < MaxAdminChanges
    /\ admin_changes' = admin_changes + 1
    /\ UNCHANGED << permissions, stdout, dataVars, httpVars, form, query >>

WithoutName(table, name) == SelectSeq(table, LAMBDA row : row.name # name)

\* The admin site adds a user under one of the test usernames before the
\* command does.
AdminAddUser ==
    \E username \in TestUsernames :
        /\ RowsNamed(users, "username", username) = {}
        /\ users' = Append(users, [NewUser(username, "old@example.com")
                                      EXCEPT !.password = make_password("old")])
        /\ UNCHANGED groups
        /\ AdminChange

\* CustomUserAdmin's groups field: the user's groups are replaced.
AdminSetUserGroups ==
    \E i \in 1..Len(users), names \in SUBSET { groups[j].name : j \in 1..Len(groups) } :
        /\ users' = [users EXCEPT ![i].groups = names]
        /\ UNCHANGED groups
        /\ AdminChange

\* The admin site deletes a group; its members lose it.
AdminDeleteGroup ==
    \E j \in 1..Len(groups) :
        /\ groups' = WithoutName(groups, groups[j].name)
        /\ users' = [i \in 1..Len(users) |->
                        [users[i] EXCEPT !.groups = @ \ {groups[j].name}]]
        /\ AdminChange

\* The admin site takes a permission away from a group.
AdminRemoveGroupPermission ==
    \E j \in 1..Len(groups) :
        \E perm \in groups[j].permissions :
            /\ groups' = [groups EXCEPT ![j].permissions = @ \ {perm}]
            /\ UNCHANGED users
            /\ AdminChange

NextSeed ==
    \/ Migrate
    \/ CreateGroups
    \/ CreateTestUsers
    \/ AdminAddUser
    \/ AdminSetUserGroups
    \/ AdminDeleteGroup
    \/ AdminRemoveGroupPermission

SpecSeed == InitSeed /\ [][NextSeed]_vars

-----------------------------------------------------------------------------
(* Properties of the management commands.                                    *)

LastLine(out) == IF out = << >> THEN Line("", "", "") ELSE out[Len(out)]

\* The step is a run of the command (no change through the admin site, no
\* migration), told by the line the command ends with.
CommandStep(last_text) ==
    /\ admin_changes' = admin_changes
    /\ permissions' = permissions
    /\ LastLine(stdout').text = last_text

CreateGroupsStep == CommandStep("Groups and permissions setup complete.") /\ users' = users
CreateTestUsersStep == CommandStep("Test users creation complete.") /\ groups' = groups

Codenames(perms) == { p.codename : p \in perms }

\* The three groups, each once, with the permission sets of the mapping.
SeededGroups(table) ==
    /\ Len(table) = 3
    /\ \E a, e, v \in 1..3 :
        /\ table[a].name = "Admins" /\ table[e].name = "Editors" /\ table[v].name = "Viewers"
        /\ table[a].permissions \subseteq BookshelfPerms
        /\ table[e].permissions \subseteq BookshelfPerms
        /\ table[v].permissions \subseteq BookshelfPerms
        /\ Codenames(table[a].permissions) = {"can_view", "can_create", "can_edit", "can_delete"}
        /\ Codenames(table[e].permissions) = {"can_view", "can_create", "can_edit"}
        /\ Codenames(table[v].permissions) = {"can_view"}

Complains(out) == \E i \in 1..Len(out) : out[i].style # "SUCCESS"

\* C4: with the four Book permissions present, a run of create_groups that
\* starts with no groups leaves exactly the three groups Admins, Editors and
\* Viewers with their permission sets; a further run complains of nothing,
\* adds no group and leaves the groups and their permission sets as they were.
C4_CreateGroupsIsIdempotent ==
    [][ ( /\ CreateGroupsStep
          /\ BookshelfPerms \subseteq permissions ) =>
            /\ groups = << >> => SeededGroups(groups')
            /\ SeededGroups(groups) =>
                /\ groups' = groups
                /\ ~Complains(stdout') ]_vars

\* C4 witness: create_groups has run a second time on the three groups (it
\* reported them updated) and they are as seeded.
C4_Witness ==
    /\ SeededGroups(groups)
    /\ Len(stdout) = 4
    /\ \A i \in 1..3 : stdout[i].text = "Updated group"
    /\ LastLine(stdout).text = "Groups and permissions setup complete."

AllGroupsPresent(table) == \A name \in GroupNames : RowsNamed(table, "name", name) # {}

\* C5: a run of create_test_users with the three groups present leaves exactly
\* one user for each test username, in its own group and no other, whatever
\* groups it was in before; for a user that existed already nothing is
\* created and password and email stay as they were, and the run ends normally.
C5_TestUsersEndInTheirOneGroup ==
    [][ ( /\ CreateTestUsersStep
          /\ AllGroupsPresent(groups) ) =>
            \A t \in 1..Len(TestUsers) :
                LET before == RowsNamed(users, "username", TestUsers[t].username)
                    after == RowsNamed(users', "username", TestUsers[t].username)
                IN  /\ Cardinality(after) = 1
                    /\ \A i \in after : users'[i].groups = {TestUsers[t].group_name}
                    /\ before # {} =>
                        /\ after = before
                        /\ Len(users') >= Len(users)
                        /\ \A i \in before :
                            /\ users'[i].password = users[i].password
                            /\ users'[i].email = users[i].email ]_vars

\* C5 witness: the command ran over an admin_user the admin site had made (the
\* old email and password are kept) and put it in Admins alone.
C5_Witness ==
    /\ LastLine(stdout).text = "Test users creation complete."
    /\ \E i \in 1..Len(stdout) :
        stdout[i] = Line("WARNING", "User already exists", "admin_user")
    /\ \E i \in 1..Len(users) :
        /\ users[i].username = "admin_user"
        /\ users[i].email = "old@example.com"
        /\ users[i].password = make_password("old")
        /\ users[i].groups = {"Admins"}

\* C6: a missing prerequisite is reported and skipped, and the command still
\* runs to its end.  create_groups writes a warning for each Book permission
\* that is missing, gives that permission to no group and gives each group
\* the rest of its permissions; create_test_users writes a complaint for a
\* user whose group is missing and leaves that user's groups as they were.
C6_MissingPrerequisiteIsSkipped ==
    [][ /\ CreateGroupsStep =>
            /\ \A c \in Range(BookCodenames) :
                Perm("bookshelf", c) \notin permissions =>
                    /\ \E i \in 1..Len(stdout') :
                        stdout'[i].style = "WARNING" /\ stdout'[i].item = c
                    /\ \A j \in 1..Len(groups') :
                        Perm("bookshelf", c) \notin groups'[j].permissions
            /\ \A g \in 1..Len(GroupPermissions) :
                \A j \in RowsNamed(groups', "name", GroupPermissions[g].name) :
                    groups'[j].permissions =
                        { Perm("bookshelf", c) : c \in Range(GroupPermissions[g].perms) }
                            \cap permissions
        /\ CreateTestUsersStep =>
            \A t \in 1..Len(TestUsers) :
                RowsNamed(groups, "name", TestUsers[t].group_name) = {} =>
                    /\ \E i \in 1..Len(stdout') :
                        /\ stdout'[i].style \in {"WARNING", "ERROR"}
                        /\ stdout'[i].text = "Group does not exist. Run create_groups first."
                        /\ stdout'[i].item = TestUsers[t].username
                    /\ \A i \in RowsNamed(users', "username", TestUsers[t].username) :
                        users'[i].groups =
                            IF i \in DOMAIN users THEN users[i].groups ELSE {} ]_vars

\* C6 witness: create_test_users ran with the Viewers group missing: it said
\* so, left viewer_user in the group it was in, and went on to its end.
C6_Witness ==
    /\ LastLine(stdout).text = "Test users creation complete."
    /\ RowsNamed(groups, "name", "Viewers") = {}
    /\ \E i \in 1..Len(stdout) :
        stdout[i] = Line("ERROR", "Group does not exist. Run create_groups first.", "viewer_user")
    /\ \E i \in 1..Len(users) :
        users[i].username = "viewer_user" /\ users[i].groups = {"Admins"}

-----------------------------------------------------------------------------
(* relationship_app: the sample queries and the library page.                *)

Raised(exception) == [raised |-> exception]
Returned(value) == [returned |-> value]

\* The names a function of query_samples.py can use besides its own: those
\* the module binds at its top level, and the builtins.
ModuleNames ==
    {"Iterable", "Optional", "os", "django", "_setup_django", "books_by_author",
     "books_in_library", "librarian_for_library"}
Builtins == {"getattr", "list", "print"}
Bound(name, local_names) == name \in local_names \cup ModuleNames \cup Builtins

\* books_by_author: the argument is author_id, the lookup reads author_name
\* and objects, which nothing binds.
books_by_author(author_id, author_pks, book_table) ==
    LET local_names == {"author_id", "Author"}
    IN  IF ~Bound("author_name", local_names) THEN Raised("NameError")
        ELSE IF ~Bound("objects", local_names) THEN Raised("NameError")
        ELSE Raised("AttributeError")

\* books_in_library: the argument is library_id, the lookup reads library_name.
books_in_library(library_id, library_table) ==
    LET local_names == {"library_id", "Library"}
    IN  IF ~Bound("library_name", local_names) THEN Raised("NameError")
        ELSE IF library_id \notin Pks(library_table) THEN Returned({})
        ELSE Returned(library_table[library_id].books)

\* librarian_for_library: the function imports Library and reads Librarian.
librarian_for_library(library_id, librarian_table) ==
    LET local_names == {"library_id", "Library"}
    IN  IF ~Bound("Librarian", local_names) THEN Raised("NameError")
        ELSE IF ~Bound("library_name", local_names) THEN Raised("NameError")
        ELSE Returned(PyNone)

\* LibraryBooksView: get_queryset filters the books by the library's pk, and
\* get_context_data fetches the library with get_object_or_404.
LibraryBooksView_get_queryset(pk, library_table, book_table) ==
    { b \in Pks(book_table) : pk \in Pks(library_table) /\ b \in library_table[pk].books }

LibraryBooksView_get(pk, library_table, book_table) ==
    LET object_list == LibraryBooksView_get_queryset(pk, library_table, book_table)
    IN  IF pk \notin Pks(library_table) THEN Response(404, "Http404")
        ELSE ListResponse("relationship_app/library_detail.html", object_list)

LibraryPks == {1, 2}
QueryKeys == {1, 2, 3}

InitQueries ==
    /\ InitSeeded
    /\ bookshelf_books = EmptyTable(BookPks)
    /\ relationship_books = [pk \in BookPks |-> [title |-> <<"a">>, author |-> 1]]
    /\ authors = {1}
    /\ libraries = EmptyTable(LibraryPks)
    /\ librarians = EmptyTable(LibraryPks)
    /\ InitHttp /\ InitForm /\ InitQuery

Called(call, arg, outcome) ==
    /\ query' = [call |-> call, arg |-> arg, outcome |-> outcome]
    /\ UNCHANGED << authVars, dataVars, httpVars, form >>

BooksByAuthor ==
    \E author_id \in QueryKeys :
        Called("books_by_author", author_id, books_by_author(author_id, authors, relationship_books))

BooksInLibrary ==
    \E library_id \in QueryKeys :
        Called("books_in_library", library_id, books_in_library(library_id, libraries))

LibrarianForLibrary ==
    \E library_id \in QueryKeys :
        Called("librarian_for_library", library_id, librarian_for_library(library_id, librarians))

LibraryBooks ==
    \E user \in {AnonymousUser, "member"}, pk \in QueryKeys :
        /\ request' = Request(user, "relationship_app.LibraryBooksView", "GET", pk, PyNone)
        /\ response' = LibraryBooksView_get(pk, libraries, relationship_books)
        /\ UNCHANGED << authVars, dataVars, form, query >>

\* LibraryAdmin and LibrarianAdmin: the admin site saves and deletes
\* libraries and their librarians (a librarian goes with its library).
AdminSaveLibrary ==
    \E pk \in LibraryPks, books \in SUBSET Pks(relationship_books) :
        /\ libraries' = [libraries EXCEPT ![pk] = [name |-> "library", books |-> books]]
        /\ UNCHANGED << authVars, bookshelf_books, relationship_books, authors, librarians,
                        httpVars, form, query >>

AdminDeleteLibrary ==
    \E pk \in Pks(libraries) :
        /\ libraries' = [libraries EXCEPT ![pk] = NoRow]
        /\ librarians' = [librarians EXCEPT ![pk] = NoRow]
        /\ UNCHANGED << authVars, bookshelf_books, relationship_books, authors, httpVars,
                        form, query >>

AdminSaveLibrarian ==
    \E pk \in Pks(libraries) :
        /\ librarians' = [librarians EXCEPT ![pk] = [name |-> "librarian", library |-> pk]]
        /\ UNCHANGED << authVars, bookshelf_books, relationship_books, authors, libraries,
                        httpVars, form, query >>

NextQueries ==
    \/ BooksByAuthor
    \/ BooksInLibrary
    \/ LibrarianForLibrary
    \/ LibraryBooks
    \/ AdminSaveLibrary
    \/ AdminDeleteLibrary
    \/ AdminSaveLibrarian

SpecQueries == InitQueries /\ [][NextQueries]_vars

\* C10: a read whose key matches nothing ends without an error: books_by_author,
\* books_in_library and the library page give an empty result, and
\* librarian_for_library gives None; for a library that exists,
\* books_in_library gives exactly the books linked to it.
C10_ReadsOfMissingKeysAreEmpty ==
    [][ /\ ( /\ query' # query
             /\ query'.call = "books_by_author"
             /\ query'.arg \notin authors ) =>
            query'.outcome = Returned({})
        /\ ( /\ query' # query
             /\ query'.call = "books_in_library" ) =>
            query'.outcome =
                IF query'.arg \in Pks(libraries) THEN Returned(libraries[query'.arg].books)
                ELSE Returned({})
        /\ ( /\ query' # query
             /\ query'.call = "librarian_for_library"
             /\ query'.arg \notin Pks(libraries) ) =>
            query'.outcome = Returned(PyNone)
        /\ ( /\ Handled
             /\ request'.view = "relationship_app.LibraryBooksView"
             /\ request'.pk \notin Pks(libraries) ) =>
            /\ response'.status = 200
            /\ response'.object_list = {} ]_vars

-----------------------------------------------------------------------------
(* The management commands and the book views together: the commands seed    *)
(* the groups and the test users, and the test users send requests to the    *)
(* book views of both apps.                                                  *)

\* The apps are migrated but for, at first, Book's can_delete.
InitRights ==
    /\ permissions \in { RelationshipPerms \cup (BookshelfPerms \ {Perm("bookshelf", "can_delete")}),
                         RelationshipPerms \cup BookshelfPerms }
    /\ groups = << >>
    /\ users = << >>
    /\ stdout = << >>
    /\ admin_changes = 0
    /\ InitBooks /\ InitLibrary /\ InitHttp /\ InitForm /\ InitQuery

\* The test users that exist and so can log in.
TestRequesters == { username \in TestUsernames : RowsNamed(users, "username", username) # {} }

TestBookshelfPost == BookshelfPost(PyStr(<<"a">>), PyStr(<<"b">>), PyInt(MinYear))
TestRelationshipPost == RelationshipPost(PyStr(<<"a">>), PyInt(1))

TestUserBookshelfAddBook ==
    \E user \in TestRequesters, method \in Methods :
        BookshelfStep(Request(user, "bookshelf.add_book", method, 0, TestBookshelfPost),
                      bookshelf_add_book(users, groups, bookshelf_books, user, method,
                                         TestBookshelfPost, NewPk(bookshelf_books)))

TestUserBookshelfEditBook ==
    \E user \in TestRequesters, method \in Methods, pk \in BookPks :
        BookshelfStep(Request(user, "bookshelf.edit_book", method, pk, TestBookshelfPost),
                      bookshelf_edit_book(users, groups, bookshelf_books, user, method,
                                          TestBookshelfPost, pk))

TestUserBookshelfDeleteBook ==
    \E user \in TestRequesters, method \in Methods, pk \in BookPks :
        BookshelfStep(Request(user, "bookshelf.delete_book", method, pk, PyNone),
                      bookshelf_delete_book(users, groups, bookshelf_books, user, method, pk))

TestUserRelationshipAddBook ==
    \E user \in TestRequesters, method \in Methods :
        RelationshipStep(Request(user, "relationship_app.add_book", method, 0, TestRelationshipPost),
                         relationship_add_book(users, groups, relationship_books, authors,
                                               user, method, TestRelationshipPost,
                                               NewPk(relationship_books)))

TestUserRelationshipEditBook ==
    \E user \in TestRequesters, method \in Methods, pk \in BookPks :
        RelationshipStep(Request(user, "relationship_app.edit_book", method, pk, TestRelationshipPost),
                         relationship_edit_book(users, groups, relationship_books, authors,
                                                user, method, TestRelationshipPost, pk))

TestUserRelationshipDeleteBook ==
    \E user \in TestRequesters, method \in Methods, pk \in BookPks :
        RelationshipStep(Request(user, "relationship_app.delete_book", method, pk, PyNone),
                         relationship_delete_book(users, groups, relationship_books, user, method, pk))

NextRights ==
    \/ Migrate
    \/ CreateGroups
    \/ CreateTestUsers
    \/ TestUserBookshelfAddBook
    \/ TestUserBookshelfEditBook
    \/ TestUserBookshelfDeleteBook
    \/ TestUserRelationshipAddBook
    \/ TestUserRelationshipEditBook
    \/ TestUserRelationshipDeleteBook

SpecRights == InitRights /\ [][NextRights]_vars

-----------------------------------------------------------------------------
(* Properties of the seeded users on the book views.                         *)

\* A run of a command and nothing else: no request is handled in the step.
CreateGroupsRun == CreateGroupsStep /\ UNCHANGED << dataVars, httpVars >>
CreateTestUsersRun == CreateTestUsersStep /\ UNCHANGED << dataVars, httpVars >>

\* Each test user is there once, in its own group alone.
SeededUsers(user_rows) ==
    \A t \in 1..Len(TestUsers) :
        LET rows == RowsNamed(user_rows, "username", TestUsers[t].username)
        IN  /\ Cardinality(rows) = 1
            /\ \A i \in rows :
                /\ user_rows[i].groups = {TestUsers[t].group_name}
                /\ user_rows[i].is_active

\* What create_groups followed by create_test_users leaves.
Seeded == SeededGroups(groups) /\ SeededUsers(users)

\* The operation of a book view, whichever app it is in.
Mutation(view) ==
    CASE view \in {"bookshelf.add_book", "relationship_app.add_book"} -> "add_book"
      [] view \in {"bookshelf.edit_book", "relationship_app.edit_book"} -> "edit_book"
      [] view \in {"bookshelf.delete_book", "relationship_app.delete_book"} -> "delete_book"

\* The rights of the seeded users: those of Admins, Editors and Viewers.
RightsOfGroup(username) ==
    CASE username = "admin_user" -> {"add_book", "edit_book", "delete_book"}
      [] username = "editor_user" -> {"add_book", "edit_book"}
      [] username = "viewer_user" -> {}

\* The commands seed the groups and the users, and what they seed stays: with
\* the four Book permissions present create_groups leaves the three groups as
\* mapped, create_test_users then leaves each test user in its group alone,
\* and no request and no further run of the commands changes that.
SeedingLasts ==
    /\ (CreateGroupsRun /\ BookshelfPerms \subseteq permissions) => SeededGroups(groups')
    /\ (CreateTestUsersRun /\ SeededGroups(groups)) => Seeded'
    /\ Seeded => Seeded'

\* The seeded user's request to a view of the given ones is let through
\* exactly when the operation is among the rights of the user's group.
AllowedByGroupOn(views) ==
    ( /\ Handled
      /\ Seeded
      /\ request'.user \in TestUsernames
      /\ request'.view \in views ) =>
        (response'.status # 403 <=> Mutation(request'.view) \in RightsOfGroup(request'.user))

\* C12: after create_groups followed by create_test_users with the
\* four Book permissions present, in every later state admin_user is allowed
\* add_book, edit_book and delete_book, editor_user is allowed add_book and
\* edit_book and denied delete_book, and viewer_user is denied all three, on
\* the book views of bookshelf and of relationship_app alike.
C12_SeededUsersHaveGroupRightsOnBothApps ==
    [][ /\ SeedingLasts
        /\ AllowedByGroupOn(BookshelfViews \cup RelationshipViews) ]_vars

====
